---- MODULE Spec2Model ----
(***************************************************************************)
(* AnnotationMixin of <model-viewer>                                       *)
(* (packages/model-viewer/src/features/annotation.ts).                     *)
(*                                                                         *)
(* The model holds the element's light-DOM children, the MutationObserver  *)
(* record queue, the hotspot registry ($hotspotMap), the Hotspot objects,  *)
(* the hotspots attached to scene.model and scene.isDirty.  Every handler  *)
(* of the mixin is one action.  The native MutationObserver path (ShadyDOM *)
(* == null) is the one modelled.  Spec explores the registry;              *)
(* AllHandlersSpec runs every handler, resizes and                         *)
(* positionAndNormalFromPoint included, with the viewport at its initial   *)
(* size and single-node child changes; PickingSpec explores picking over   *)
(* viewport sizes and pixel coordinates; LifecycleSpec and PairingSpec     *)
(* explore connects, disconnects and child changes.                        *)
(***************************************************************************)
EXTENDS Integers, Sequences, FiniteSets, TLC

(* ----------------------------- bounds --------------------------------- *)
MaxPending == 2       \* queued mutation records
MaxRef == 2           \* cap of a reference count

\* the nodes the page puts under the element: two HTMLElements, numbered in
\* document order, and text nodes
Elements == {1, 2}
TextNodes == {3, 4}
Nodes == Elements \cup TextNodes

\* the slot values an element takes: element 1 is re-slotted freely,
\* element 2 always declares "hotspot-1"
SlotValues == {"hotspot-1", "hotspot-2", "", "a-hotspot"}
SlotChoices(node) == IF node = 1 THEN SlotValues ELSE {"hotspot-1"}
\* data-position / data-normal pairs an element may carry, and the pairs
\* updateHotspot is called with
DataValues == {[position |-> "0 0 0", normal |-> "0 1 0"],
               [position |-> "1 2 3", normal |-> "0 0 1"]}
DataChoices(node) ==
  IF node = 2 THEN DataValues
  ELSE {[position |-> "0 0 0", normal |-> "0 1 0"]}
ConfigValues == {[position |-> "4 5 6", normal |-> "1 0 0"]}
\* the names updateHotspot is called with: one that elements declare and one
\* that no element declares
ConfigNames == {"hotspot-1", "hotspot-9"}

\* viewport sizes of resize notifications; the size the element starts with
InitialSize == [width |-> 4, height |-> 2]
Sizes == {[width |-> w, height |-> h] : w \in {2, 3, 4}, h \in {2, 3}}

\* exact rational numbers <<numerator, denominator>>, denominator > 0, in
\* lowest terms
RECURSIVE GCD(_, _)
GCD(a, b) == IF b = 0 THEN a ELSE GCD(b, a % b)

Abs(n) == IF n < 0 THEN -n ELSE n

Rat(n, d) ==
  LET g == GCD(Abs(n), Abs(d))
      sg == IF d < 0 THEN -1 ELSE 1
  IN <<sg * (n \div g), sg * (d \div g)>>

\* pixel coordinates positionAndNormalFromPoint is called with: outside the
\* viewport, on its edges, inside, and the centre of an odd width (3/2)
PixelValues ==
  {Rat(-1, 1), Rat(0, 1), Rat(1, 1), Rat(3, 2), Rat(2, 1), Rat(3, 1),
   Rat(4, 1), Rat(5, 1)}
\* the pixel picked while the registry is explored: the centre of InitialSize
CentrePixel == [x |-> Rat(2, 1), y |-> Rat(1, 1)]

\* what the scene's ray can hit: nothing (<<>>) or one surface point, in
\* world space
NoHit == <<>>
SurfaceHit == <<[position |-> <<1, 2, 3>>, normal |-> <<0, 0, 1>>]>>
Geometries == {NoHit, SurfaceHit}
\* scene.model.matrixWorld: the model is translated by this vector
ModelTranslation == <<1, 0, 0>>

VARIABLES
  children,       \* this.children (element children), in document order
  slot,           \* node.slot of every element
  dataPosition,   \* node.dataset.position
  dataNormal,     \* node.dataset.normal
  observing,      \* the observer observes this (between connect and disconnect)
  pending,        \* the observer's record queue
  hotspotMap,     \* this[$hotspotMap]: name -> Hotspot (object id)
  hotspots,       \* the live Hotspot objects: id -> fields
  modelHotspots,  \* the hotspots attached to this[$scene].model
  isDirty,        \* this[$scene].isDirty
  width,          \* this[$scene].width
  height,         \* this[$scene].height
  rendererSize,   \* the size of this[$annotationRenderer]
  picked,         \* the last handler's positionAndNormalFromPoint call, if any
  lastOp,         \* the handler that ran last ("dom": a DOM operation)
  calls,          \* the calls the last handler made, in order
  net,            \* per name: processed adds minus processed removes, floor 0
  incremented     \* per followed element: the names whose hotspot a processed
                  \* add of the element created or incremented

vars == <<children, slot, dataPosition, dataNormal, observing, pending,
          hotspotMap, hotspots, modelHotspots, isDirty, width, height,
          rendererSize, picked, lastOp, calls, net, incremented>>

domVars == <<children, slot, dataPosition, dataNormal>>
sceneVars == <<hotspotMap, hotspots, modelHotspots, isDirty>>
viewVars == <<width, height, rendererSize>>

(* ----------------------------- helpers -------------------------------- *)
MapSet(m, k, v) == [x \in (DOMAIN m) \cup {k} |-> IF x = k THEN v ELSE m[x]]
MapDelete(m, k) == [x \in (DOMAIN m) \ {k} |-> m[x]]
EmptyMap == [x \in {} |-> 0]

Min(S) == CHOOSE x \in S : \A y \in S : x <= y

SeqToSet(s) == {s[i] : i \in 1..Len(s)}

RemoveAt(s, i) == SubSeq(s, 1, i - 1) \o SubSeq(s, i + 1, Len(s))

IndexIn(s, x) == Min({i \in 1..Len(s) : s[i] = x})

\* String.prototype.indexOf: first 0-based position of sub in s, or -1
IndexOf(s, sub) ==
  LET hits == {i \in 1..(Len(s) - Len(sub) + 1) :
                 SubSeq(s, i, i + Len(sub) - 1) = sub}
  IN IF hits = {} THEN -1 ELSE Min(hits) - 1

SortedInsert(s, x) ==
  LET k == Cardinality({i \in 1..Len(s) : s[i] < x})
  IN SubSeq(s, 1, k) \o <<x>> \o SubSeq(s, k + 1, Len(s))

IsHTMLElement(node) == node \in Elements

(* ------------------------ Hotspot (collaborator) ----------------------- *)
NewHotspot(config) ==
  [name |-> config.name, position |-> config.position,
   normal |-> config.normal, referenceCount |-> 1]

Increment(h) == [h EXCEPT !.referenceCount = @ + 1]

Decrement(h) ==
  IF h.referenceCount > 0 THEN [h EXCEPT !.referenceCount = @ - 1] ELSE h

UpdatePosition(h, position) == [h EXCEPT !.position = position]

UpdateNormal(h, normal) == [h EXCEPT !.normal = normal]

(* ------------------------- Model (collaborator) ------------------------ *)
ModelAddHotspot(set, id) == set \cup {id}

ModelRemoveHotspot(set, id) == set \ {id}

\* $needsRender of the base element: marks the scene dirty
NeedsRender(st) == [st EXCEPT !.isDirty = TRUE]

\* the renderer clears the flag once the frame has been drawn
FrameDrawn(st) == [st EXCEPT !.isDirty = FALSE]

\* super[$onResize]: the scene takes the new viewport size
SceneSetSize(e) == [width |-> e.width, height |-> e.height]

\* scene.positionAndNormalFromPoint(ndc): the ray through a coordinate
\* outside [-1, 1] x [-1, 1] meets nothing; inside, it meets what is there
InView(r) == -r[2] <= r[1] /\ r[1] <= r[2]

ScenePositionAndNormalFromPoint(ndc, geometry) ==
  IF InView(ndc.x) /\ InView(ndc.y) THEN geometry ELSE NoHit

\* toVector3D: a plain {x, y, z} value
ToVector3D(v) == [x |-> v[1], y |-> v[2], z |-> v[3]]

(* ------------------------- Vector2 / Matrix4 --------------------------- *)
RatDiv(r, n) == Rat(r[1], r[2] * n)

RatTimes(r, n) == Rat(r[1] * n, r[2])

RatMinus(r, n) == Rat(r[1] - n * r[2], r[2])

Vector2Set(x, y) == [x |-> x, y |-> y]

MultiplyScalar(v, n) == [x |-> RatTimes(v.x, n), y |-> RatTimes(v.y, n)]

SubScalar(v, n) == [x |-> RatMinus(v.x, n), y |-> RatMinus(v.y, n)]

\* the inverse of a translation, applied to a point
ApplyInverse(translation, point) ==
  [i \in 1..3 |-> point[i] - translation[i]]

(* ----------------------------- the mixin ------------------------------ *)
Call(op, node) == [op |-> op, node |-> node]

Log(st, op, node) == [st EXCEPT !.calls = Append(@, Call(op, node))]

\* new Hotspot(...): an object distinct from every object that existed when
\* the handler started or was constructed by it
FreshId(st) == Min({i \in 1..(Cardinality(st.used) + 1) : i \notin st.used})

\* slip: the prefix test accepts "hotspot" anywhere in the slot
EligibleAnywhere(node) ==
  IsHTMLElement(node) /\ IndexOf(slot[node], "hotspot") >= 0

Eligible(node) == IsHTMLElement(node) /\ IndexOf(slot[node], "hotspot") = 0

\* slip: a second declaration of a name is not counted
AddHotspotNoIncrement(st, node) ==
  IF ~Eligible(node) THEN st
  ELSE LET name == slot[node] IN
    IF name \in DOMAIN st.hotspotMap
    THEN [st EXCEPT !.isDirty = TRUE]
    ELSE LET id == FreshId(st)
             hotspot == NewHotspot([name |-> name,
                                    position |-> dataPosition[node],
                                    normal |-> dataNormal[node]])
         IN [st EXCEPT !.hotspotMap = MapSet(@, name, id),
                       !.hotspots = MapSet(@, id, hotspot),
                       !.modelHotspots = ModelAddHotspot(@, id),
                       !.used = @ \cup {id},
                       !.isDirty = TRUE]

\* slip: a later declaration of a name moves the shared hotspot
AddHotspotLastWins(st, node) ==
  IF ~Eligible(node) THEN st
  ELSE LET name == slot[node] IN
    IF name \in DOMAIN st.hotspotMap
    THEN [st EXCEPT !.hotspots[st.hotspotMap[name]] =
                       UpdateNormal(UpdatePosition(Increment(@),
                                                   dataPosition[node]),
                                    dataNormal[node]),
                    !.isDirty = TRUE]
    ELSE LET id == FreshId(st)
             hotspot == NewHotspot([name |-> name,
                                    position |-> dataPosition[node],
                                    normal |-> dataNormal[node]])
         IN [st EXCEPT !.hotspotMap = MapSet(@, name, id),
                       !.hotspots = MapSet(@, id, hotspot),
                       !.modelHotspots = ModelAddHotspot(@, id),
                       !.used = @ \cup {id},
                       !.isDirty = TRUE]

\* slip: only the creation of a hotspot marks the scene dirty
AddHotspotDirtiesOnCreate(st, node) ==
  IF ~Eligible(node) THEN st
  ELSE LET name == slot[node] IN
    IF name \in DOMAIN st.hotspotMap
    THEN [st EXCEPT !.hotspots[st.hotspotMap[name]] = Increment(@)]
    ELSE LET id == FreshId(st)
             hotspot == NewHotspot([name |-> name,
                                    position |-> dataPosition[node],
                                    normal |-> dataNormal[node]])
         IN [st EXCEPT !.hotspotMap = MapSet(@, name, id),
                       !.hotspots = MapSet(@, id, hotspot),
                       !.modelHotspots = ModelAddHotspot(@, id),
                       !.used = @ \cup {id},
                       !.isDirty = TRUE]

AddHotspot(st, node) ==
  IF ~Eligible(node) THEN st
  ELSE LET name == slot[node] IN
    IF name \in DOMAIN st.hotspotMap
    THEN [st EXCEPT !.hotspots[st.hotspotMap[name]] = Increment(@),
                    !.isDirty = TRUE]
    ELSE LET id == FreshId(st)
             hotspot == NewHotspot([name |-> name,
                                    position |-> dataPosition[node],
                                    normal |-> dataNormal[node]])
         IN [st EXCEPT !.hotspotMap = MapSet(@, name, id),
                       !.hotspots = MapSet(@, id, hotspot),
                       !.modelHotspots = ModelAddHotspot(@, id),
                       !.used = @ \cup {id},
                       !.isDirty = TRUE]

\* slip: the last removal unregisters the hotspot but leaves it on the model
RemoveHotspotStaysAttached(st, node) ==
  IF ~IsHTMLElement(node) THEN st
  ELSE IF slot[node] \notin DOMAIN st.hotspotMap THEN st
  ELSE LET name == slot[node]
           id == st.hotspotMap[name]
           hotspot == Decrement(st.hotspots[id])
       IN IF hotspot.referenceCount = 0
          THEN [st EXCEPT !.hotspotMap = MapDelete(@, name),
                          !.hotspots[id] = hotspot,
                          !.isDirty = TRUE]
          ELSE [st EXCEPT !.hotspots[id] = hotspot,
                          !.isDirty = TRUE]

\* slip: a removal that finds no hotspot still marks the scene dirty
RemoveHotspotAlwaysDirties(st, node) ==
  IF ~IsHTMLElement(node) THEN st
  ELSE IF slot[node] \notin DOMAIN st.hotspotMap
       THEN [st EXCEPT !.isDirty = TRUE]
  ELSE LET name == slot[node]
           id == st.hotspotMap[name]
           hotspot == Decrement(st.hotspots[id])
       IN IF hotspot.referenceCount = 0
          THEN [st EXCEPT !.modelHotspots = ModelRemoveHotspot(@, id),
                          !.hotspotMap = MapDelete(@, name),
                          !.hotspots = MapDelete(@, id),
                          !.isDirty = TRUE]
          ELSE [st EXCEPT !.hotspots[id] = hotspot,
                          !.isDirty = TRUE]

RemoveHotspot(st, node) ==
  IF ~IsHTMLElement(node) THEN st
  ELSE IF slot[node] \notin DOMAIN st.hotspotMap THEN st
  ELSE LET name == slot[node]
           id == st.hotspotMap[name]
           hotspot == Decrement(st.hotspots[id])
       IN IF hotspot.referenceCount = 0
          THEN [st EXCEPT !.modelHotspots = ModelRemoveHotspot(@, id),
                          !.hotspotMap = MapDelete(@, name),
                          !.hotspots = MapDelete(@, id),
                          !.isDirty = TRUE]
          ELSE [st EXCEPT !.hotspots[id] = hotspot,
                          !.isDirty = TRUE]

RECURSIVE AddAll(_, _)
AddAll(st, nodes) ==
  IF nodes = <<>> THEN st
  ELSE AddAll(Log(AddHotspot(st, Head(nodes)), "addHotspot", Head(nodes)),
              Tail(nodes))

RECURSIVE RemoveAll(_, _)
RemoveAll(st, nodes) ==
  IF nodes = <<>> THEN st
  ELSE RemoveAll(Log(RemoveHotspot(st, Head(nodes)), "removeHotspot",
                     Head(nodes)),
                 Tail(nodes))

\* slip: the removed nodes of a record are handled before its added nodes
ProcessMutationRemovesFirst(st, mutation) ==
  IF mutation.type = "childList"
  THEN Log(NeedsRender(AddAll(RemoveAll(st, mutation.removedNodes),
                              mutation.addedNodes)),
           "needsRender", 0)
  ELSE st

\* the body of mutations.forEach for one record
ProcessMutation(st, mutation) ==
  IF mutation.type = "childList"
  THEN Log(NeedsRender(RemoveAll(AddAll(st, mutation.addedNodes),
                                 mutation.removedNodes)),
           "needsRender", 0)
  ELSE st

\* the nodes of all records in one pass each, then one $needsRender
RECURSIVE AllAdded(_)
AllAdded(mutations) ==
  IF mutations = <<>> THEN <<>>
  ELSE Head(mutations).addedNodes \o AllAdded(Tail(mutations))

RECURSIVE AllRemoved(_)
AllRemoved(mutations) ==
  IF mutations = <<>> THEN <<>>
  ELSE Head(mutations).removedNodes \o AllRemoved(Tail(mutations))

\* variant: an addition pass and a removal pass over the whole batch, and
\* $needsRender once at its end
MutationCallbackPerBatch(st, mutations) ==
  Log(NeedsRender(RemoveAll(AddAll(st, AllAdded(mutations)),
                            AllRemoved(mutations))),
      "needsRender", 0)

RECURSIVE MutationCallback(_, _)
MutationCallback(st, mutations) ==
  IF mutations = <<>> THEN st
  ELSE MutationCallback(ProcessMutation(st, Head(mutations)), Tail(mutations))

\* slip: the normal is not written
UpdateHotspotPositionOnly(st, config) ==
  IF config.name \notin DOMAIN st.hotspotMap THEN st
  ELSE LET id == st.hotspotMap[config.name] IN
    [st EXCEPT !.hotspots[id] = UpdatePosition(@, config.position)]

\* slip: an unknown name gets a hotspot of its own
UpdateHotspotCreates(st, config) ==
  LET id == IF config.name \in DOMAIN st.hotspotMap
            THEN st.hotspotMap[config.name] ELSE FreshId(st)
      hotspot == IF config.name \in DOMAIN st.hotspotMap
                 THEN st.hotspots[id] ELSE NewHotspot(config)
  IN [st EXCEPT !.hotspotMap = MapSet(@, config.name, id),
                !.hotspots = MapSet(@, id,
                    UpdateNormal(UpdatePosition(hotspot, config.position),
                                 config.normal)),
                !.modelHotspots = ModelAddHotspot(@, id)]

UpdateHotspot(st, config) ==
  IF config.name \notin DOMAIN st.hotspotMap THEN st
  ELSE LET id == st.hotspotMap[config.name] IN
    [st EXCEPT !.hotspots[id] =
        UpdateNormal(UpdatePosition(@, config.position), config.normal)]

\* slip: the overlay is rendered on every tick
TickAlwaysRenders(st) ==
  IF st.isDirty
  THEN Log(Log(st, "updateHotspots", 0), "render", 0)
  ELSE Log(st, "render", 0)

\* slip: the hotspots are recomputed on every tick
TickAlwaysUpdates(st) ==
  IF st.isDirty
  THEN Log(Log(st, "updateHotspots", 0), "render", 0)
  ELSE Log(st, "updateHotspots", 0)

\* slip: a dirty tick re-reads the data attributes of the declaring children
TickRereadsAttributes(st) ==
  LET seeded(h) ==
        LET declaring == {n \in SeqToSet(children) : slot[n] = h.name}
        IN IF declaring = {} THEN h
           ELSE UpdateNormal(UpdatePosition(h, dataPosition[Min(declaring)]),
                             dataNormal[Min(declaring)])
  IN IF st.isDirty
     THEN Log(Log([st EXCEPT !.hotspots =
                      [id \in DOMAIN st.hotspots |-> seeded(st.hotspots[id])]],
                  "updateHotspots", 0), "render", 0)
     ELSE st

Tick(st) ==
  IF st.isDirty
  THEN Log(Log(st, "updateHotspots", 0), "render", 0)
  ELSE st

\* the value positionAndNormalFromPoint returns when nothing is hit
Null == <<>>

\* slip: a miss is reported as a point at the model's origin
PositionAndNormalFromPointNoNullTest(size, pixelX, pixelY, geometry) ==
  LET scaled == SubScalar(MultiplyScalar(
                            Vector2Set(RatDiv(pixelX, size.width),
                                       RatDiv(pixelY, size.height)), 2), 1)
      pixelPosition == [scaled EXCEPT !.y = RatTimes(@, -1)]
      hit == ScenePositionAndNormalFromPoint(pixelPosition, geometry)
      found == IF hit = NoHit
               THEN [position |-> ModelTranslation, normal |-> <<0, 0, 0>>]
               ELSE hit[1]
  IN [pixel |-> [x |-> pixelX, y |-> pixelY],
      ndc |-> pixelPosition,
      hit |-> hit,
      returned |->
        <<[position |-> ToVector3D(ApplyInverse(ModelTranslation,
                                                found.position)),
           normal |-> ToVector3D(found.normal)]>>]

\* slip: the y coordinate is not flipped
PositionAndNormalFromPointNoFlip(size, pixelX, pixelY, geometry) ==
  LET pixelPosition == SubScalar(MultiplyScalar(
                            Vector2Set(RatDiv(pixelX, size.width),
                                       RatDiv(pixelY, size.height)), 2), 1)
      hit == ScenePositionAndNormalFromPoint(pixelPosition, geometry)
  IN [pixel |-> [x |-> pixelX, y |-> pixelY],
      ndc |-> pixelPosition,
      hit |-> hit,
      returned |->
        IF hit = NoHit THEN Null
        ELSE <<[position |-> ToVector3D(ApplyInverse(ModelTranslation,
                                                     hit[1].position)),
                normal |-> ToVector3D(hit[1].normal)]>>]

PositionAndNormalFromPoint(size, pixelX, pixelY, geometry) ==
  LET scaled == SubScalar(MultiplyScalar(
                            Vector2Set(RatDiv(pixelX, size.width),
                                       RatDiv(pixelY, size.height)), 2), 1)
      pixelPosition == [scaled EXCEPT !.y = RatTimes(@, -1)]
      hit == ScenePositionAndNormalFromPoint(pixelPosition, geometry)
  IN [pixel |-> [x |-> pixelX, y |-> pixelY],
      ndc |-> pixelPosition,
      hit |-> hit,
      returned |->
        IF hit = NoHit THEN Null
        ELSE <<[position |-> ToVector3D(ApplyInverse(ModelTranslation,
                                                     hit[1].position)),
                normal |-> ToVector3D(hit[1].normal)]>>]

(* ------------------------------ state --------------------------------- *)
Scene ==
  [hotspotMap |-> hotspotMap, hotspots |-> hotspots,
   modelHotspots |-> modelHotspots, isDirty |-> isDirty,
   used |-> (DOMAIN hotspots) \cup modelHotspots, calls |-> <<>>]

WithinBounds(st) ==
  \A id \in DOMAIN st.hotspots : st.hotspots[id].referenceCount <= MaxRef

SetScene(st) ==
  /\ hotspotMap' = st.hotspotMap
  /\ hotspots' = st.hotspots
  /\ modelHotspots' = st.modelHotspots
  /\ isDirty' = st.isDirty
  /\ calls' = st.calls

Names == {s \in SlotValues : IndexOf(s, "hotspot") = 0}

\* the effect of one processed call on the per-name balance
RECURSIVE NetAfter(_, _)
NetAfter(n, cs) ==
  IF cs = <<>> THEN n
  ELSE LET c == Head(cs)
           nm == IF IsHTMLElement(c.node) THEN slot[c.node] ELSE ""
           n2 == IF nm \notin Names THEN n
                 ELSE IF c.op = "addHotspot" THEN [n EXCEPT ![nm] = @ + 1]
                 ELSE IF c.op = "removeHotspot" /\ n[nm] > 0
                      THEN [n EXCEPT ![nm] = @ - 1]
                 ELSE n
       IN NetAfter(n2, Tail(cs))

\* the names whose hotspot the handler's adds of element n created or
\* incremented
AddedAs(n, cs) ==
  {slot[n] : i \in {j \in 1..Len(cs) :
                      cs[j] = Call("addHotspot", n) /\ Eligible(n)}}

IncrementedAfter(inc, cs) == [n \in DOMAIN inc |-> inc[n] \cup AddedAs(n, cs)]

\* Spec follows no element, PairingSpec follows all
FollowNone == [n \in {} |-> {}]
FollowAll == [n \in Elements |-> {}]

Init ==
  /\ children = <<>>
  /\ slot = [n \in Elements |-> IF n = 1 THEN "" ELSE "hotspot-1"]
  /\ dataPosition = [n \in Elements |-> IF n = 1 THEN "0 0 0" ELSE "1 2 3"]
  /\ dataNormal = [n \in Elements |-> IF n = 1 THEN "0 1 0" ELSE "0 0 1"]
  /\ observing = FALSE
  /\ pending = <<>>
  /\ hotspotMap = EmptyMap
  /\ hotspots = EmptyMap
  /\ modelHotspots = {}
  /\ isDirty = FALSE
  /\ width = InitialSize.width
  /\ height = InitialSize.height
  /\ rendererSize = InitialSize
  /\ picked = <<>>
  /\ lastOp = "init"
  /\ calls = <<>>
  /\ net = [nm \in Names |-> 0]
  /\ incremented = FollowNone

(* ------------------------ the DOM (environment) ------------------------ *)
Record(added, removed) ==
  [type |-> "childList", addedNodes |-> added, removedNodes |-> removed]

Queue(record) ==
  /\ observing => Len(pending) < MaxPending
  /\ pending' = IF observing THEN Append(pending, record) ELSE pending

DomStep ==
  /\ lastOp' = "dom"
  /\ calls' = <<>>
  /\ picked' = <<>>
  /\ UNCHANGED <<observing, sceneVars, viewVars, net, incremented>>

\* insertBefore: the node goes to its place in document order
InsertChild(node) ==
  /\ node \notin SeqToSet(children)
  /\ children' = SortedInsert(children, node)
  /\ Queue(Record(<<node>>, <<>>))
  /\ DomStep
  /\ UNCHANGED <<slot, dataPosition, dataNormal>>

RemoveChild(node) ==
  /\ node \in SeqToSet(children)
  /\ children' = RemoveAt(children, IndexIn(children, node))
  /\ Queue(Record(<<>>, <<node>>))
  /\ DomStep
  /\ UNCHANGED <<slot, dataPosition, dataNormal>>

ReplaceChild(node, old) ==
  /\ old \in SeqToSet(children)
  /\ node \notin SeqToSet(children)
  /\ children' = SortedInsert(RemoveAt(children, IndexIn(children, old)), node)
  /\ Queue(Record(<<node>>, <<old>>))
  /\ DomStep
  /\ UNCHANGED <<slot, dataPosition, dataNormal>>

\* a text child is replaced by another, as the first DOM operation of a
\* script: text nodes reach the handlers only through mutation records
\* (this.children holds elements only)
ReplaceText ==
  /\ observing
  /\ pending = <<>>
  /\ Queue(Record(<<3>>, <<4>>))
  /\ DomStep
  /\ UNCHANGED domVars

\* Attribute writes are not observed and are read only when a handler runs:
\* a script's writes are taken before its child-list operations, which they
\* commute with.
SetSlot(node, value) ==
  /\ pending = <<>>
  /\ slot[node] # value
  /\ slot' = [slot EXCEPT ![node] = value]
  /\ DomStep
  /\ UNCHANGED <<children, dataPosition, dataNormal, pending>>

SetData(node, data) ==
  /\ pending = <<>>
  /\ <<dataPosition[node], dataNormal[node]>> # <<data.position, data.normal>>
  /\ dataPosition' = [dataPosition EXCEPT ![node] = data.position]
  /\ dataNormal' = [dataNormal EXCEPT ![node] = data.normal]
  /\ DomStep
  /\ UNCHANGED <<children, slot, pending>>

(* ----------------------------- handlers ------------------------------- *)
\* Mutation records are delivered at the microtask checkpoint that ends the
\* script that changed the children, before any later task or animation
\* frame runs: the other handlers start with an empty record queue.  (A
\* synchronous updateHotspot or disconnect inside that script reads and
\* writes nothing the queued records touch, so it is the same behaviour as
\* the call made before the script's DOM operations.)
DeliverMutations ==
  /\ observing
  /\ pending # <<>>
  /\ \E st \in {MutationCallback(Scene, pending)} :
       /\ WithinBounds(st)
       /\ SetScene(st)
       /\ net' = NetAfter(net, st.calls)
       /\ incremented' = IncrementedAfter(incremented, st.calls)
  /\ pending' = <<>>
  /\ lastOp' = "mutationCallback"
  /\ picked' = <<>>
  /\ UNCHANGED <<domVars, observing, viewVars>>

ConnectedCallback ==
  /\ ~observing
  /\ \E st \in {AddAll(Scene, children)} :
       /\ WithinBounds(st)
       /\ SetScene(st)
       /\ net' = NetAfter(net, st.calls)
       /\ incremented' = IncrementedAfter(incremented, st.calls)
  /\ observing' = TRUE
  /\ lastOp' = "connectedCallback"
  /\ picked' = <<>>
  /\ UNCHANGED <<domVars, pending, viewVars>>

DisconnectedCallback ==
  /\ observing
  /\ pending = <<>>
  /\ observing' = FALSE
  /\ pending' = <<>>
  /\ lastOp' = "disconnectedCallback"
  /\ calls' = <<>>
  /\ picked' = <<>>
  /\ UNCHANGED <<domVars, sceneVars, viewVars, net, incremented>>

UpdateHotspotCall(config) ==
  /\ pending = <<>>
  /\ \E st \in {UpdateHotspot(Scene, config)} : SetScene(st)
  /\ lastOp' = "updateHotspot"
  /\ picked' = <<>>
  /\ UNCHANGED <<domVars, observing, pending, viewVars, net, incremented>>

Configs ==
  {[name |-> nm, position |-> v.position, normal |-> v.normal] :
     nm \in ConfigNames, v \in ConfigValues}

RenderFrame ==
  /\ pending = <<>>
  /\ \E st \in {FrameDrawn(Tick(Scene))} : SetScene(st)
  /\ lastOp' = "tick"
  /\ picked' = <<>>
  /\ UNCHANGED <<domVars, observing, pending, viewVars, net, incremented>>

\* a resize notification of the hosting element
OnResize(e) ==
  /\ pending = <<>>
  /\ \E size \in {SceneSetSize(e)} :
       /\ width' = size.width
       /\ height' = size.height
  /\ rendererSize' = [width |-> e.width, height |-> e.height]
  /\ lastOp' = "onResize"
  /\ calls' = <<>>
  /\ picked' = <<>>
  /\ UNCHANGED <<domVars, observing, pending, sceneVars, net, incremented>>

PositionAndNormalFromPointCall(pixelX, pixelY, geometry) ==
  /\ pending = <<>>
  /\ picked' = <<PositionAndNormalFromPoint(
                    [width |-> width, height |-> height],
                    pixelX, pixelY, geometry)>>
  /\ lastOp' = "positionAndNormalFromPoint"
  /\ calls' = <<>>
  /\ UNCHANGED <<domVars, observing, pending, sceneVars, viewVars, net, incremented>>

Next ==
  \/ \E node \in Elements : InsertChild(node)
  \/ \E node \in Elements : RemoveChild(node)
  \/ \E node, old \in Elements : ReplaceChild(node, old)
  \/ ReplaceText
  \/ \E node \in Elements : \E value \in SlotChoices(node) :
        SetSlot(node, value)
  \/ \E node \in Elements : \E data \in DataChoices(node) :
        SetData(node, data)
  \/ DeliverMutations
  \/ ConnectedCallback
  \/ DisconnectedCallback
  \/ \E config \in Configs : UpdateHotspotCall(config)
  \/ RenderFrame

Spec == Init /\ [][Next]_vars

(* ---- every handler: the registry's steps, resizes and picking --------- *)
\* children are inserted and removed one at a time; the viewport keeps its
\* initial size and its centre pixel is picked
AllHandlersNext ==
  \/ \E node \in Elements : InsertChild(node)
  \/ \E node \in Elements : RemoveChild(node)
  \/ \E node \in Elements : \E value \in SlotChoices(node) :
        SetSlot(node, value)
  \/ \E node \in Elements : \E data \in DataChoices(node) :
        SetData(node, data)
  \/ DeliverMutations
  \/ ConnectedCallback
  \/ DisconnectedCallback
  \/ \E config \in Configs : UpdateHotspotCall(config)
  \/ RenderFrame
  \/ \E e \in {InitialSize} : OnResize(e)
  \/ \E geometry \in Geometries :
        PositionAndNormalFromPointCall(CentrePixel.x, CentrePixel.y, geometry)

AllHandlersSpec == Init /\ [][AllHandlersNext]_vars

(* ------------- picking: viewport sizes and pixel coordinates ------------ *)
\* the state after <div slot="hotspot-1" data-position="1 2 3"
\* data-normal="0 0 1"> was appended and the element connected
PickingInit ==
  /\ children = <<2>>
  /\ slot = [n \in Elements |-> IF n = 1 THEN "" ELSE "hotspot-1"]
  /\ dataPosition = [n \in Elements |-> IF n = 1 THEN "0 0 0" ELSE "1 2 3"]
  /\ dataNormal = [n \in Elements |-> IF n = 1 THEN "0 1 0" ELSE "0 0 1"]
  /\ observing = TRUE
  /\ pending = <<>>
  /\ hotspotMap = [nm \in {"hotspot-1"} |-> 1]
  /\ hotspots = [id \in {1} |->
                   NewHotspot([name |-> "hotspot-1", position |-> "1 2 3",
                               normal |-> "0 0 1"])]
  /\ modelHotspots = {1}
  /\ isDirty = TRUE
  /\ width = InitialSize.width
  /\ height = InitialSize.height
  /\ rendererSize = InitialSize
  /\ picked = <<>>
  /\ lastOp = "connectedCallback"
  /\ calls = <<Call("addHotspot", 2)>>
  /\ net = [nm \in Names |-> IF nm = "hotspot-1" THEN 1 ELSE 0]
  /\ incremented = FollowNone

PickingNext ==
  \/ \E e \in Sizes : OnResize(e)
  \/ \E pixelX, pixelY \in PixelValues : \E geometry \in Geometries :
        PositionAndNormalFromPointCall(pixelX, pixelY, geometry)
  \/ RenderFrame

PickingSpec == PickingInit /\ [][PickingNext]_vars

(* ----- lifecycle: children that keep the slot they were created with ---- *)
\* element 1 is created with any of the slot values, element 2 with
\* "hotspot-1"; nothing rewrites an attribute afterwards
LifecycleInit ==
  /\ children = <<>>
  /\ slot \in {f \in [Elements -> SlotValues] : f[2] = "hotspot-1"}
  /\ dataPosition = [n \in Elements |-> IF n = 1 THEN "0 0 0" ELSE "1 2 3"]
  /\ dataNormal = [n \in Elements |-> IF n = 1 THEN "0 1 0" ELSE "0 0 1"]
  /\ observing = FALSE
  /\ pending = <<>>
  /\ hotspotMap = EmptyMap
  /\ hotspots = EmptyMap
  /\ modelHotspots = {}
  /\ isDirty = FALSE
  /\ width = InitialSize.width
  /\ height = InitialSize.height
  /\ rendererSize = InitialSize
  /\ picked = <<>>
  /\ lastOp = "init"
  /\ calls = <<>>
  /\ net = [nm \in Names |-> 0]
  /\ incremented = FollowNone

LifecycleNext ==
  \/ \E node \in Elements : InsertChild(node)
  \/ \E node \in Elements : RemoveChild(node)
  \/ \E node, old \in Elements : ReplaceChild(node, old)
  \/ DeliverMutations
  \/ ConnectedCallback
  \/ DisconnectedCallback

LifecycleSpec == LifecycleInit /\ [][LifecycleNext]_vars

(* ---- pairing: which hotspots the adds of each element have counted ----- *)
PairingInit ==
  /\ children = <<>>
  /\ slot = [n \in Elements |-> IF n = 1 THEN "" ELSE "hotspot-1"]
  /\ dataPosition = [n \in Elements |-> IF n = 1 THEN "0 0 0" ELSE "1 2 3"]
  /\ dataNormal = [n \in Elements |-> IF n = 1 THEN "0 1 0" ELSE "0 0 1"]
  /\ observing = FALSE
  /\ pending = <<>>
  /\ hotspotMap = EmptyMap
  /\ hotspots = EmptyMap
  /\ modelHotspots = {}
  /\ isDirty = FALSE
  /\ width = InitialSize.width
  /\ height = InitialSize.height
  /\ rendererSize = InitialSize
  /\ picked = <<>>
  /\ lastOp = "init"
  /\ calls = <<>>
  /\ net = [nm \in Names |-> 0]
  /\ incremented = FollowAll

PairingNext ==
  \/ \E node \in Elements : InsertChild(node)
  \/ \E node \in Elements : RemoveChild(node)
  \/ \E node, old \in Elements : ReplaceChild(node, old)
  \/ \E node \in Elements : \E value \in SlotChoices(node) :
        SetSlot(node, value)
  \/ DeliverMutations
  \/ ConnectedCallback
  \/ DisconnectedCallback

PairingSpec == PairingInit /\ [][PairingNext]_vars

(* ======================================================================= *)
(*                               Properties                                *)
(* ======================================================================= *)
NodeName(node) == IF IsHTMLElement(node) THEN slot[node] ELSE "#text"

CallIndexes(op, cs) == {i \in 1..Len(cs) : cs[i].op = op}

\* how often the handler called op for a node whose slot is nm
CallsFor(op, nm, cs) ==
  Cardinality({i \in CallIndexes(op, cs) : NodeName(cs[i].node) = nm})

Registered(nm) == nm \in DOMAIN hotspotMap

HotspotOf(nm) == hotspots[hotspotMap[nm]]

ReferenceCount(nm) ==
  IF Registered(nm) THEN HotspotOf(nm).referenceCount ELSE 0

TypeOK ==
  /\ SeqToSet(children) \subseteq Elements
  /\ Len(pending) <= MaxPending
  /\ DOMAIN hotspotMap \subseteq Names
  /\ \A nm \in DOMAIN hotspotMap : hotspotMap[nm] \in DOMAIN hotspots
  /\ isDirty \in BOOLEAN

(* C1: over every sequence of processed adds and removes of eligible nodes  *)
(* with one slot name, the hotspot's reference count is the number of adds  *)
(* minus the number of removes, floored at 0 by the registry (a removal     *)
(* that finds no hotspot takes nothing away); the registry holds the name   *)
(* exactly while that balance is above 0.                                   *)
C1_ReferenceCountIsBalance ==
  \A nm \in Names :
    /\ net[nm] >= 0
    /\ ReferenceCount(nm) = net[nm]
    /\ Registered(nm) <=> net[nm] > 0

\* the last removal of "hotspot-1" has been processed and destroyed the
\* hotspot, while another hotspot lives on
C1_Witness ==
  /\ lastOp = "mutationCallback"
  /\ CallsFor("removeHotspot", "hotspot-1", calls) = 1
  /\ CallsFor("addHotspot", "hotspot-1", calls) = 0
  /\ ~Registered("hotspot-1")
  /\ net["hotspot-1"] = 0
  /\ Registered("hotspot-2")

(* C2: at most one Hotspot exists per name; an add of an eligible node whose *)
(* name is registered creates no hotspot: the registry keeps the same       *)
(* Hotspot object with its position and normal, and when the handler only   *)
(* added registered names the registry and the model's set keep their size. *)
OnePerName ==
  /\ \A nm \in DOMAIN hotspotMap : HotspotOf(nm).name = nm
  /\ \A a, b \in DOMAIN hotspots : hotspots[a].name = hotspots[b].name => a = b

SharedAdd ==
  \A nm \in Names :
    (/\ Registered(nm)
     /\ CallsFor("addHotspot", nm, calls') > 0
     /\ CallsFor("removeHotspot", nm, calls') = 0)
    => /\ nm \in DOMAIN hotspotMap'
       /\ hotspotMap'[nm] = hotspotMap[nm]
       /\ hotspots'[hotspotMap'[nm]].position = HotspotOf(nm).position
       /\ hotspots'[hotspotMap'[nm]].normal = HotspotOf(nm).normal
       /\ hotspots'[hotspotMap'[nm]].referenceCount =
            HotspotOf(nm).referenceCount + CallsFor("addHotspot", nm, calls')
       /\ ((\A i \in 1..Len(calls') :
              calls'[i].op = "addHotspot" => NodeName(calls'[i].node) = nm)
           /\ CallIndexes("removeHotspot", calls') = {})
          => /\ DOMAIN hotspotMap' = DOMAIN hotspotMap
             /\ DOMAIN hotspots' = DOMAIN hotspots
             /\ modelHotspots' = modelHotspots

C2_OneHotspotPerName == []OnePerName /\ [][SharedAdd]_vars

\* element 2 (data-position "1 2 3") was added to the hotspot that element 1
\* created at "0 0 0"
C2_Witness ==
  /\ lastOp = "mutationCallback"
  /\ calls = <<Call("addHotspot", 2), Call("needsRender", 0)>>
  /\ dataPosition[2] = "1 2 3"
  /\ Registered("hotspot-1")
  /\ HotspotOf("hotspot-1").referenceCount = 2
  /\ HotspotOf("hotspot-1").position = "0 0 0"
  /\ HotspotOf("hotspot-1").normal = "0 1 0"

(* C3: in every reachable state the hotspots attached to the scene's model  *)
(* are exactly the hotspots of the registry.                                *)
C3_ModelHoldsRegistry ==
  /\ modelHotspots = {hotspotMap[nm] : nm \in DOMAIN hotspotMap}
  /\ modelHotspots = DOMAIN hotspots
  /\ \A id \in DOMAIN hotspots : hotspots[id].referenceCount >= 1

\* one of two declarations of "hotspot-1" was removed: the hotspot stays
\* registered and attached
C3_Witness ==
  /\ lastOp = "mutationCallback"
  /\ CallsFor("removeHotspot", "hotspot-1", calls) = 1
  /\ CallsFor("addHotspot", "hotspot-1", calls) = 0
  /\ Registered("hotspot-1")
  /\ HotspotOf("hotspot-1").referenceCount = 1
  /\ hotspotMap["hotspot-1"] \in modelHotspots

(* C4: after disconnectedCallback the registry holds no hotspot and no      *)
(* hotspot is attached to the scene's model.                                *)
C4_TeardownReleasesHotspots ==
  lastOp = "disconnectedCallback" => hotspotMap = EmptyMap /\ modelHotspots = {}

RenderTick == lastOp' = "tick"

(* C5: once an add or remove has set the dirty flag, the next render tick    *)
(* performs exactly one overlay render and leaves the flag clear, and a     *)
(* tick that finds the flag clear performs no overlay render.               *)
C5_OneRenderPerDirtying ==
  [][RenderTick =>
       /\ Cardinality(CallIndexes("render", calls')) =
            (IF isDirty THEN 1 ELSE 0)
       /\ isDirty' = FALSE]_vars

\* a tick found the flag an add had set and rendered the overlay once
C5_Witness ==
  /\ lastOp = "tick"
  /\ Cardinality(CallIndexes("render", calls)) = 1
  /\ ~isDirty
  /\ Registered("hotspot-1")

(* C6: a render tick calls the model's updateHotspots and the overlay        *)
(* render if and only if scene.isDirty is true when it reads the flag; with *)
(* the flag false it calls neither.                                         *)
C6_TickGatedByDirtyFlag ==
  [][RenderTick =>
       /\ isDirty => calls' = <<Call("updateHotspots", 0), Call("render", 0)>>
       /\ ~isDirty => calls' = <<>>]_vars

\* a tick ran on a clean scene with a registered hotspot and did nothing
C6_Witness ==
  /\ lastOp = "tick"
  /\ calls = <<>>
  /\ hotspotMap # EmptyMap

BatchDelivered == lastOp' = "mutationCallback"

NodeCalls(cs) == SelectSeq(cs, LAMBDA c : c.op \in {"addHotspot", "removeHotspot"})

RECURSIVE CallsOfNodes(_, _)
CallsOfNodes(op, nodes) ==
  IF nodes = <<>> THEN <<>>
  ELSE <<Call(op, Head(nodes))>> \o CallsOfNodes(op, Tail(nodes))

\* record by record: the record's added nodes, then its removed nodes
RECURSIVE RecordOrder(_)
RecordOrder(mutations) ==
  IF mutations = <<>> THEN <<>>
  ELSE CallsOfNodes("addHotspot", Head(mutations).addedNodes)
       \o CallsOfNodes("removeHotspot", Head(mutations).removedNodes)
       \o RecordOrder(Tail(mutations))

(* C7 as stated: in a delivered batch every added node of the batch is      *)
(* processed before any removed node of the batch.                          *)
C7_AddsBeforeRemovesInBatch ==
  lastOp = "mutationCallback" =>
    \A i \in CallIndexes("addHotspot", calls) :
      \A j \in CallIndexes("removeHotspot", calls) : i < j

(* C7 amended: the records of a batch are processed in delivery order, and  *)
(* within each record every added node is processed before any removed     *)
(* node of that record.                                                     *)
C7_AddsBeforeRemovesInRecord ==
  [][BatchDelivered => NodeCalls(calls') = RecordOrder(pending)]_vars

\* a batch of two records: the removal of the first record was processed
\* before the addition of the second
C7_Witness ==
  /\ lastOp = "mutationCallback"
  /\ \E i \in CallIndexes("removeHotspot", calls) :
       \E j \in CallIndexes("addHotspot", calls) : i < j
  /\ \E i \in CallIndexes("addHotspot", calls) :
       i + 1 \in CallIndexes("removeHotspot", calls)

\* the index in the call sequence at which record k of the batch is done
RECURSIVE RecordEnd(_, _)
RecordEnd(mutations, k) ==
  IF k = 0 THEN 0
  ELSE RecordEnd(mutations, k - 1)
       + Len(mutations[k].addedNodes) + Len(mutations[k].removedNodes) + 1

(* C8 as stated: for a delivered batch $needsRender is called once, after   *)
(* all nodes of the batch have been processed.                              *)
C8_NeedsRenderOncePerBatch ==
  lastOp = "mutationCallback" =>
    CallIndexes("needsRender", calls) = {Len(calls)}

(* C8 amended: for a delivered batch $needsRender is called once per        *)
(* mutation record, after the added and removed nodes of that record have   *)
(* been processed, and the scene is dirty when the batch is done.           *)
C8_NeedsRenderOncePerRecord ==
  [][BatchDelivered =>
       /\ CallIndexes("needsRender", calls') =
            {RecordEnd(pending, k) : k \in 1..Len(pending)}
       /\ isDirty' = TRUE]_vars

\* a batch of two records was delivered and $needsRender ran twice
C8_Witness ==
  /\ lastOp = "mutationCallback"
  /\ Cardinality(CallIndexes("needsRender", calls)) = 2
  /\ calls[Len(calls)].op = "needsRender"
  /\ isDirty

(* C9: updateHotspot on a registered name makes that hotspot's position and *)
(* normal the given values and changes neither its reference count nor the  *)
(* registry's membership nor the model's set nor any other hotspot.         *)
C9_UpdateHotspotRepositions ==
  [][\A config \in Configs :
       (/\ lastOp' = "updateHotspot"
        /\ Registered(config.name)
        /\ UpdateHotspotCall(config)) =>
         /\ hotspotMap' = hotspotMap
         /\ modelHotspots' = modelHotspots
         /\ DOMAIN hotspots' = DOMAIN hotspots
         /\ hotspots'[hotspotMap[config.name]] =
              [HotspotOf(config.name) EXCEPT !.position = config.position,
                                             !.normal = config.normal]
         /\ \A id \in DOMAIN hotspots :
              id # hotspotMap[config.name] => hotspots'[id] = hotspots[id]]_vars

\* the shared hotspot of two declarations reads the updated values, next to
\* a second hotspot
C9_Witness ==
  /\ lastOp = "updateHotspot"
  /\ Registered("hotspot-1")
  /\ Registered("hotspot-2")
  /\ HotspotOf("hotspot-1").position = "4 5 6"
  /\ HotspotOf("hotspot-1").normal = "1 0 0"
  /\ HotspotOf("hotspot-1").referenceCount = 2
  /\ HotspotOf("hotspot-2").position = "0 0 0"

(* C10: updateHotspot with a name that is not registered changes nothing:   *)
(* no entry is created, and the hotspots, the model's set and the dirty     *)
(* flag stay as they are.                                                   *)
C10_UpdateUnknownIsNoOp ==
  [][\A config \in Configs :
       (/\ lastOp' = "updateHotspot"
        /\ ~Registered(config.name)
        /\ UpdateHotspotCall(config)) =>
         UNCHANGED <<hotspotMap, hotspots, modelHotspots, isDirty>>]_vars

\* updateHotspot ran while "hotspot-1" was not registered (so neither of the
\* names it is called with was) and another hotspot was
C10_Witness ==
  /\ lastOp = "updateHotspot"
  /\ ~Registered("hotspot-1")
  /\ Registered("hotspot-2")
  /\ isDirty

HandlerRan == lastOp' \in {"mutationCallback", "connectedCallback"}

\* the handler made add/remove calls, and only for nodes that satisfy P
\* (judged in the state the handler started in)
OnlyCalls(op, P(_)) ==
  /\ HandlerRan
  /\ CallIndexes(op, calls') # {}
  /\ \A i \in 1..Len(calls') :
       calls'[i].op \in {"addHotspot", "removeHotspot"} =>
         calls'[i].op = op /\ P(calls'[i].node)

Unmatched(node) == IsHTMLElement(node) /\ ~Registered(slot[node])

(* C11: processing the removal of an element whose name has no hotspot in   *)
(* the registry returns the scene as it was: the registry, every reference  *)
(* count, the model's set and the dirty flag are unchanged; a handler whose *)
(* only node calls are such removals leaves registry, hotspots and model    *)
(* set as they were.                                                        *)
RemoveUnmatchedIsNoOp ==
  \A node \in Elements :
    Unmatched(node) => RemoveHotspot(Scene, node) = Scene

C11_RemoveUnknownIsNoOp ==
  /\ []RemoveUnmatchedIsNoOp
  /\ [][OnlyCalls("removeHotspot", Unmatched) =>
          UNCHANGED <<hotspotMap, hotspots, modelHotspots>>]_vars

\* element 1, re-slotted to "hotspot-2" which has no hotspot, was removed
\* while "hotspot-1" was counted twice: the batch changed nothing
C11_Witness ==
  /\ lastOp = "mutationCallback"
  /\ calls = <<Call("removeHotspot", 1), Call("needsRender", 0)>>
  /\ slot[1] = "hotspot-2"
  /\ ~Registered("hotspot-2")
  /\ Registered("hotspot-1")
  /\ HotspotOf("hotspot-1").referenceCount = 2

\* the spec's eligibility rule: an element whose slot string starts with the
\* literal prefix "hotspot"
StartsWithHotspot(s) == Len(s) >= 7 /\ SubSeq(s, 1, 7) = "hotspot"

Ineligible(node) == ~(node \in Elements /\ StartsWithHotspot(slot[node]))

(* C12: a node that is not an element, or whose slot does not start with    *)
(* "hotspot", is ignored by add and by remove handling: both return the     *)
(* scene as it was (registry, reference counts, model set, dirty flag),     *)
(* whatever hotspots exist; a handler whose only node calls are for such    *)
(* nodes leaves registry, hotspots and model set as they were, and          *)
(* connectedCallback then leaves the dirty flag too.                        *)
IneligibleIgnored ==
  \A node \in Nodes :
    Ineligible(node) => /\ AddHotspot(Scene, node) = Scene
                        /\ RemoveHotspot(Scene, node) = Scene

C12_IneligibleNodesIgnored ==
  /\ []IneligibleIgnored
  /\ [][(OnlyCalls("addHotspot", Ineligible)
          \/ OnlyCalls("removeHotspot", Ineligible)) =>
           /\ UNCHANGED <<hotspotMap, hotspots, modelHotspots>>
           /\ lastOp' = "connectedCallback" => UNCHANGED isDirty]_vars

\* the element connected with one child slotted "a-hotspot" while
\* "hotspot-1" was registered and the scene clean: nothing changed
C12_Witness ==
  /\ lastOp = "connectedCallback"
  /\ calls = <<Call("addHotspot", 1)>>
  /\ slot[1] = "a-hotspot"
  /\ Registered("hotspot-1")
  /\ DOMAIN hotspotMap = {"hotspot-1"}
  /\ ~isDirty

\* the Hotspot object registered under nm is the same before and after
SameHotspot(nm) ==
  /\ Registered(nm)
  /\ nm \in DOMAIN hotspotMap'
  /\ hotspotMap'[nm] = hotspotMap[nm]

(* C13: while a hotspot exists, no step other than updateHotspot changes    *)
(* its position or normal: not the add or removal of children of its name,  *)
(* not a change of a child's data-position / data-normal, not a tick, a     *)
(* resize or a positionAndNormalFromPoint call.                             *)
C13_OnlyUpdateHotspotRepositions ==
  [][lastOp' # "updateHotspot" =>
       \A nm \in Names :
         SameHotspot(nm) =>
           /\ hotspots'[hotspotMap'[nm]].position = HotspotOf(nm).position
           /\ hotspots'[hotspotMap'[nm]].normal = HotspotOf(nm).normal]_vars

\* "hotspot-1" was created by element 2 at "1 2 3"; element 2's attributes
\* were then rewritten to "0 0 0" and element 1 was added under the same
\* name, and a tick ran: the hotspot is still at "1 2 3"
C13_Witness ==
  /\ lastOp = "tick"
  /\ calls = <<Call("updateHotspots", 0), Call("render", 0)>>
  /\ SeqToSet(children) = {1, 2}
  /\ slot[1] = "hotspot-1"
  /\ dataPosition[1] = "0 0 0"
  /\ dataPosition[2] = "0 0 0"
  /\ Registered("hotspot-1")
  /\ HotspotOf("hotspot-1").referenceCount = 2
  /\ HotspotOf("hotspot-1").position = "1 2 3"
  /\ HotspotOf("hotspot-1").normal = "0 0 1"

Picked == lastOp' = "positionAndNormalFromPoint"

\* a pixel coordinate p (a rational) lies outside [0, extent]
OutOfRange(p, extent) == p[1] < 0 \/ p[1] > extent * p[2]

(* C14: whenever the scene's hit-test reports no intersection,              *)
(* positionAndNormalFromPoint returns null and leaves the registry, the     *)
(* hotspots, the model's set and the dirty flag as they were; this is the   *)
(* case for every pixel coordinate outside the viewport.                    *)
C14_PickMissReturnsNull ==
  [][Picked =>
       /\ picked'[1].hit = NoHit =>
            /\ picked'[1].returned = Null
            /\ UNCHANGED <<hotspotMap, hotspots, modelHotspots, isDirty>>
       /\ (OutOfRange(picked'[1].pixel.x, width)
           \/ OutOfRange(picked'[1].pixel.y, height)) =>
            picked'[1].returned = Null]_vars

\* pixel (5, -1) of a 3 x 3 viewport was picked, with a hotspot registered
\* and the scene clean: null came back
C14_Witness ==
  /\ lastOp = "positionAndNormalFromPoint"
  /\ width = 3
  /\ height = 3
  /\ picked[1].pixel = [x |-> <<5, 1>>, y |-> <<-1, 1>>]
  /\ picked[1].returned = Null
  /\ Registered("hotspot-1")
  /\ ~isDirty

\* the rational r equals n / d
RatIs(r, n, d) == r[1] * d = n * r[2]

(* C15: for a viewport of width w > 0 and height h > 0 the coordinate       *)
(* handed to the scene's hit-test for pixel (pixelX, pixelY) is             *)
(* (2*pixelX/w - 1, -(2*pixelY/h - 1)): the centre (w/2, h/2) gives (0, 0), *)
(* pixel (0, 0) gives (-1, 1) and pixel (w, h) gives (1, -1).               *)
C15_PickNormalizesPixel ==
  [][Picked =>
       LET p == picked'[1].pixel
           ndc == picked'[1].ndc
       IN /\ width > 0 /\ height > 0
          /\ RatIs(ndc.x, 2 * p.x[1] - width * p.x[2], width * p.x[2])
          /\ RatIs(ndc.y, -(2 * p.y[1] - height * p.y[2]), height * p.y[2])
          /\ (RatIs(p.x, width, 2) /\ RatIs(p.y, height, 2)) =>
               ndc = [x |-> <<0, 1>>, y |-> <<0, 1>>]
          /\ (RatIs(p.x, 0, 1) /\ RatIs(p.y, 0, 1)) =>
               ndc = [x |-> <<-1, 1>>, y |-> <<1, 1>>]
          /\ (RatIs(p.x, width, 1) /\ RatIs(p.y, height, 1)) =>
               ndc = [x |-> <<1, 1>>, y |-> <<-1, 1>>]]_vars

\* the centre (3/2, 1) of a 3 x 2 viewport was picked: the hit-test got
\* (0, 0) and reported the surface point, returned in model space
C15_Witness ==
  /\ lastOp = "positionAndNormalFromPoint"
  /\ width = 3
  /\ height = 2
  /\ picked[1].pixel = [x |-> <<3, 2>>, y |-> <<1, 1>>]
  /\ picked[1].ndc = [x |-> <<0, 1>>, y |-> <<0, 1>>]
  /\ picked[1].returned =
       <<[position |-> [x |-> 0, y |-> 2, z |-> 3],
          normal |-> [x |-> 0, y |-> 0, z |-> 1]]>>

\* the handler processed the add of an eligible node
AddedEligible ==
  /\ HandlerRan
  /\ \E i \in CallIndexes("addHotspot", calls') : ~Ineligible(calls'[i].node)

(* C16: the dirty flag is true right after the add of an eligible node has  *)
(* been processed, whether it created the hotspot or incremented it, and    *)
(* right after a removal that found a hotspot, whether or not the count     *)
(* reached zero; a handler that processed an eligible add ends with the     *)
(* flag set.                                                                *)
DirtyAfterAddOrRemove ==
  \A node \in Elements :
    /\ ~Ineligible(node) => AddHotspot(Scene, node).isDirty
    /\ Registered(slot[node]) => RemoveHotspot(Scene, node).isDirty

C16_DirtyAfterAddOrMatchedRemove ==
  /\ []DirtyAfterAddOrRemove
  /\ [][AddedEligible => isDirty']_vars

\* the element was connected a second time: the add of element 2 only
\* incremented "hotspot-1", and the scene is dirty
C16_Witness ==
  /\ lastOp = "connectedCallback"
  /\ calls = <<Call("addHotspot", 2)>>
  /\ Registered("hotspot-1")
  /\ HotspotOf("hotspot-1").referenceCount = 2
  /\ DOMAIN hotspotMap = {"hotspot-1"}
  /\ isDirty

(* C17: after updateHotspot has repositioned a registered hotspot the scene *)
(* is dirty, so that the next tick recomputes the hotspots and renders the  *)
(* overlay.                                                                 *)
C17_UpdateHotspotMarksDirty ==
  [][\A config \in Configs :
       (/\ lastOp' = "updateHotspot"
        /\ Registered(config.name)
        /\ UpdateHotspotCall(config)) => isDirty']_vars

\* the children that declare nm now
Declaring(nm) == {n \in SeqToSet(children) : slot[n] = nm}

(* C18: whenever the element is connected and every delivered mutation has *)
(* been processed, each name's reference count is the number of current    *)
(* children slotted with it, and a name no child declares is not           *)
(* registered.                                                              *)
C18_CountsMatchChildren ==
  (observing /\ pending = <<>>) =>
    \A nm \in Names :
      /\ ReferenceCount(nm) = Cardinality(Declaring(nm))
      /\ Registered(nm) <=> Declaring(nm) # {}

\* the elements whose removal, in calls cs replayed from scene st, decrements
\* a hotspot that no processed add of the element created or incremented
RECURSIVE Unpaired(_, _, _)
Unpaired(st, inc, cs) ==
  IF cs = <<>> THEN {}
  ELSE LET c == Head(cs) IN
    IF c.op = "addHotspot"
    THEN Unpaired(AddHotspot(st, c.node), IncrementedAfter(inc, <<c>>),
                  Tail(cs))
    ELSE IF c.op = "removeHotspot"
    THEN (IF /\ c.node \in DOMAIN inc
             /\ slot[c.node] \in DOMAIN st.hotspotMap
             /\ slot[c.node] \notin inc[c.node]
          THEN {c.node} ELSE {})
         \cup Unpaired(RemoveHotspot(st, c.node), inc, Tail(cs))
    ELSE Unpaired(st, inc, Tail(cs))

(* C19: the removal of a child decrements the hotspot that the child's add  *)
(* created or incremented, also when its slot was changed in between: no    *)
(* processed removal decrements a hotspot under a name that no processed    *)
(* add of that element has counted.                                         *)
C19_RemovalPairsWithAdd ==
  [][BatchDelivered => Unpaired(Scene, incremented, calls') = {}]_vars

====
